---- MODULE Spec2Model ----
(***************************************************************************)
(* The Acefone call-ended webhook pipeline (FastAPI handler                *)
(* acefone_webhook) in its two deployed variants, and the stand-alone      *)
(* download/transcribe/summarize script:                                   *)
(*   "main"       src/main.py            (retrying download, lead/contact) *)
(*   "main_06_11" src/unnamed/part_000   (single-shot download, lead only) *)
(*   "test2"      src/test2.py           (script, no webhook, no CRM)      *)
(* One action per remote call of a run; the telephony provider, the        *)
(* generative provider and the CRM are the environment, whose responses    *)
(* are drawn from small sets.  The CRM keeps the leads and timeline        *)
(* comments the runs create.                                               *)
(***************************************************************************)
EXTENDS Integers, Sequences, FiniteSets, TLC

\* ---------------------------------------------------------------- bounds
MaxRuns == 2            \* webhook deliveries (handler runs) in one behaviour
MaxRecords == 2         \* call records in one /call/records response
MaxPhoneLen == 3        \* characters of a phone string given to the normalization
NoteLimit == 6000       \* a candidate for the fixed maximum length of a note
MaxEntityId == 11       \* largest entity id in a search result given to the tie-break

\* ------------------------------------------------------ program constants
MaxAttempts == 3        \* for attempt in range(3)
RetryDelay == 60        \* time.sleep(60) inside download_audio
TemplateLen == 122      \* characters of the comment f-string around its fields
MinAudioSize == 5000    \* payload size threshold
SettleDelayMain == 60   \* time.sleep(60) before login, main.py
SettleDelayOld == 15    \* time.sleep(15) before login, main 06_11
HttpOk == 200
TranscriptCut == 5000   \* transcription[:5000]

\* ------------------------------------------------------ values and inputs
None == "<None>"                    \* Python None for string-valued names
NoPhone == <<"<None>">>             \* Python None for a phone number
NoId == 0                           \* Python None for an entity id
NoAudio == -1                       \* no audio bytes held

Variants == {"main", "main_06_11", "test2"}
Runs == 1..MaxRuns

CallIds == {"123", "124"}
Statuses == {None, "", "completed", "Completed", "missed"}
Secrets == {None, "", "s3cret"}     \* os.getenv("ACF_SECRET")
Headers == {None, "s3cret", "wrong"}  \* the x-secret request header

PhoneA == <<"+", "9", "1">>
PhoneB == <<"7", "7">>
Phones == {PhoneA, PhoneB}

\* str.lower() on the status values the webhook is driven with
Lower(s) ==
    CASE s = "Completed" -> "completed"
      [] s = "Missed" -> "missed"
      [] OTHER -> s

\* truth value of an Optional[str]
Truthy(s) == s # None /\ s # ""

\* truth value of a phone number (None and "" are falsy)
PhoneTruthy(p) == p # NoPhone /\ p # <<>>

\* ---------------------------------------------------------------- state
VARIABLES
    variant,        \* which file is the running program
    ACF_SECRET,     \* module-level configuration read at import
    env,            \* "any": remote calls may fail; "healthy": they succeed;
                    \* "lookup_fails": they succeed, the CRM lookup may fail
    nruns,          \* number of deliveries the behaviour may make
    run,            \* per run: position, payload, locals, counters, outcome
    crm_leads,      \* CRM leads: set of [id, phone]
    crm_contacts,   \* CRM contacts: set of [id, phone]
    crm_comments,   \* CRM timeline: sequence of comments posted
    calc            \* a helper function applied on its own: name, input, output

vars == <<variant, ACF_SECRET, env, nruns, run, crm_leads, crm_contacts, crm_comments, calc>>

NoRecord == [call_id |-> None, recording_url |-> None,
             client_number |-> NoPhone, did_number |-> NoPhone]

NoText == [kind |-> "unset", len |-> 0]

NoResult == [kind |-> "pending", detail |-> None, lead_id |-> NoId, phone |-> NoPhone]

IdleRun ==
    [pc |-> "idle", call_id |-> None, status |-> None, x_secret |-> None,
     settle |-> 0, token |-> None, call_data |-> NoRecord, phone |-> NoPhone,
     attempt |-> 0, slept |-> 0, last_status |-> 0, audio |-> NoAudio,
     transcription |-> NoText, summary |-> NoText,
     lookup |-> "none", entity_id |-> NoId, entity_type |-> None, created |-> NoId,
     n_login |-> 0, n_fetch |-> 0, n_download |-> 0, n_transcribe |-> 0,
     n_summarize |-> 0, n_find |-> 0, n_create |-> 0, n_post |-> 0,
     result |-> NoResult]

\* no helper applied
NoCalc == [fn |-> "none"]

\* CRM contents a deployment may start from
Lead(i, p) == [id |-> i, phone |-> p]
InitialCrms ==
    { [leads |-> {}, contacts |-> {}],
      [leads |-> {Lead(4, PhoneA)}, contacts |-> {}],
      [leads |-> {Lead(4, PhoneA), Lead(6, PhoneA)}, contacts |-> {Lead(8, PhoneA)}],
      [leads |-> {}, contacts |-> {Lead(8, PhoneA)}] }

InitWith(e, n) ==
    /\ variant \in Variants
    /\ ACF_SECRET \in (IF variant = "test2" THEN {None} ELSE Secrets)
    /\ env = e
    /\ nruns = n
    /\ run = [r \in Runs |-> IdleRun]
    /\ \E c \in (IF variant = "test2" THEN {[leads |-> {}, contacts |-> {}]} ELSE InitialCrms) :
          /\ crm_leads = c.leads
          /\ crm_contacts = c.contacts
    /\ crm_comments = <<>>
    /\ calc = NoCalc

Init == InitWith("any", 1)

\* ------------------------------------------------------------- helpers
Set(r, rec) == run' = [run EXCEPT ![r] = rec]

Result(kind, detail, lead_id, phone) ==
    [kind |-> kind, detail |-> detail, lead_id |-> lead_id, phone |-> phone]

\* the run ends with the given outcome
Finish(rec, res) == [rec EXCEPT !.pc = "done", !.result = res]

\* an exception leaves the handler: the framework answers 500, not the handler
Escapes(rec, what) == Finish(rec, Result("exception", what, NoId, NoPhone))

RemoteCalls(rec) ==
    rec.n_login + rec.n_fetch + rec.n_download + rec.n_transcribe
    + rec.n_summarize + rec.n_find + rec.n_create + rec.n_post

Healthy == env \in {"healthy", "lookup_fails"}

\* the CRM search answers with a result
LookupAnswers == env = "healthy"

\* --------------------------------------------------- handler entry point
\* (mutant) a request without the header is let through
Unauthorized_HeaderOptional(secret, x_secret) ==
    Truthy(secret) /\ Truthy(x_secret) /\ x_secret # secret

\* ACF_SECRET and x_secret != os.getenv("ACF_SECRET"); the process does not
\* change its environment, so both reads give the same value
Unauthorized(secret, x_secret) == Truthy(secret) /\ x_secret # secret

\* (mutant) the comparison inverted: completed calls are the ones ignored
NotCompleted_Inverted(status) == Truthy(status) /\ Lower(status) = "completed"

\* payload.status and payload.status.lower() != "completed"
NotCompleted(status) == Truthy(status) /\ Lower(status) # "completed"

SettleDelay == IF variant = "main" THEN SettleDelayMain ELSE SettleDelayOld

\* the request arrives; the handler validates it and sleeps the settle delay
acefone_webhook(r) ==
    /\ variant \in {"main", "main_06_11"}
    /\ run[r].pc = "idle"
    /\ r <= nruns
    /\ \A q \in Runs : q < r => run[q].pc # "idle"
    /\ \E call_id \in CallIds,
          status \in (IF Healthy THEN {"completed"} ELSE Statuses),
          x_secret \in (IF Healthy THEN {ACF_SECRET} ELSE Headers) :
          LET rec == [run[r] EXCEPT !.call_id = call_id, !.status = status,
                                    !.x_secret = x_secret]
          IN  IF Unauthorized(ACF_SECRET, x_secret)
              THEN Set(r, Finish(rec, Result("http_error", "403 Unauthorized", NoId, NoPhone)))
              ELSE IF NotCompleted(status)
              THEN Set(r, Finish(rec, Result("message", "Call not completed. Ignoring.", NoId, NoPhone)))
              ELSE Set(r, [rec EXCEPT !.pc = "login", !.settle = SettleDelay])
    /\ UNCHANGED <<variant, ACF_SECRET, env, nruns, calc, crm_leads, crm_contacts, crm_comments>>

\* ------------------------------------------------------------ acefone_login
LoginOutcomes == IF Healthy THEN {"token"} ELSE {"token", "no_token", "http_error"}

acefone_login(r) ==
    /\ run[r].pc = "login"
    /\ \E o \in LoginOutcomes :
          LET rec == [run[r] EXCEPT !.n_login = @ + 1]
          IN  IF o = "http_error"
              THEN Set(r, Finish(rec, Result("error", "Failed to login to Acefone", NoId, NoPhone)))
              ELSE Set(r, [rec EXCEPT !.pc = "fetch",
                                      !.token = IF o = "token" THEN "tok" ELSE None])
    /\ UNCHANGED <<variant, ACF_SECRET, env, nruns, calc, crm_leads, crm_contacts, crm_comments>>

\* the stand-alone script starts: __main__ of test2.py
test2_main(r) ==
    /\ variant = "test2"
    /\ run[r].pc = "idle"
    /\ r <= nruns
    /\ \A q \in Runs : q < r => run[q].pc # "idle"
    /\ Set(r, [run[r] EXCEPT !.pc = "download",
                             !.call_data = [NoRecord EXCEPT !.recording_url = "u"]])
    /\ UNCHANGED <<variant, ACF_SECRET, env, nruns, calc, crm_leads, crm_contacts, crm_comments>>

\* -------------------------------------------------------- fetch_call_details
RecordShapes ==
    { [recording_url |-> "u", client_number |-> PhoneA, did_number |-> PhoneB],
      [recording_url |-> "u", client_number |-> NoPhone, did_number |-> PhoneB],
      [recording_url |-> "u", client_number |-> NoPhone, did_number |-> NoPhone],
      [recording_url |-> None, client_number |-> PhoneA, did_number |-> NoPhone] }

HealthyShapes == { s \in RecordShapes : s.recording_url # None /\ s.did_number # NoPhone }

CallRecordsOf(shapes) ==
    { [call_id |-> c, recording_url |-> s.recording_url,
       client_number |-> s.client_number, did_number |-> s.did_number] :
      c \in CallIds, s \in shapes }

SeqsUpTo(S, n) == UNION { [1..k -> S] : k \in 0..n }

\* for call in results: if str(call.get("call_id")) == str(call_id): return call
RECURSIVE FirstMatch(_, _)
FirstMatch(results, call_id) ==
    IF results = <<>> THEN NoRecord
    ELSE IF Head(results).call_id = call_id THEN Head(results)
    ELSE FirstMatch(Tail(results), call_id)

\* call_data.get("client_number") or call_data.get("did_number")
PhoneOf(call) ==
    IF PhoneTruthy(call.client_number) THEN call.client_number ELSE call.did_number

FetchResponses(call_id) ==
    IF Healthy
    THEN { <<c>> : c \in { d \in CallRecordsOf(HealthyShapes) : d.call_id = call_id } }
    ELSE SeqsUpTo(CallRecordsOf(RecordShapes), MaxRecords)

\* (mutant) a call that is not found is resolved and published all the same
fetch_call_details_NoReturn(r) ==
    /\ run[r].pc = "fetch"
    /\ LET rec == [run[r] EXCEPT !.n_fetch = @ + 1]
       IN  \/ /\ ~Healthy
              /\ Set(r, Escapes(rec, "HTTPError"))
           \/ \E results \in FetchResponses(rec.call_id) :
                 LET call == FirstMatch(results, rec.call_id)
                 IN  IF call = NoRecord
                     THEN Set(r, [rec EXCEPT !.pc = "find"])
                     ELSE Set(r, [rec EXCEPT !.pc = "download", !.call_data = call,
                                             !.phone = PhoneOf(call)])
    /\ UNCHANGED <<variant, ACF_SECRET, env, nruns, calc, crm_leads, crm_contacts, crm_comments>>

fetch_call_details(r) ==
    /\ run[r].pc = "fetch"
    /\ LET rec == [run[r] EXCEPT !.n_fetch = @ + 1]
       IN  \/ /\ ~Healthy       \* r.raise_for_status() raises, outside any try
              /\ Set(r, Escapes(rec, "HTTPError"))
           \/ \E results \in FetchResponses(rec.call_id) :
                 LET call == FirstMatch(results, rec.call_id)
                 IN  IF call = NoRecord
                     THEN Set(r, Finish(rec, Result("error", "Call not found in Acefone records", NoId, NoPhone)))
                     ELSE Set(r, [rec EXCEPT !.pc = "download", !.call_data = call,
                                             !.phone = PhoneOf(call)])
    /\ UNCHANGED <<variant, ACF_SECRET, env, nruns, calc, crm_leads, crm_contacts, crm_comments>>

\* ------------------------------------------------------------ download_audio
HttpStatuses == {HttpOk, 404}
PayloadSizes == {0, MinAudioSize - 1, MinAudioSize, MinAudioSize + 1}

DownloadResponses ==
    IF Healthy THEN {[status |-> HttpOk, size |-> MinAudioSize + 1]}
    ELSE [status : HttpStatuses, size : PayloadSizes]

\* (mutant) the size test dropped: any 200 response is taken as the audio
AcceptsRetrying_StatusOnly(status, size) == status = HttpOk

\* main.py: r.status_code == 200 and len(r.content) > 5000
AcceptsRetrying(status, size) == status = HttpOk /\ size > MinAudioSize

\* main 06_11: raise unless status 200; raise if len(r.content) < 5000
AcceptsSingleShot(status, size) == ~(status # HttpOk) /\ ~(size < MinAudioSize)

\* test2.py: raise unless status 200; raise if size < 5000; else save the file
AcceptsScript(status, size) == ~(status # HttpOk) /\ ~(size < MinAudioSize)

Accepts(status, size) ==
    CASE variant = "main" -> AcceptsRetrying(status, size)
      [] variant = "main_06_11" -> AcceptsSingleShot(status, size)
      [] OTHER -> AcceptsScript(status, size)

\* (mutant) one attempt too many
Budget_OffByOne == IF variant = "main" THEN MaxAttempts + 1 ELSE 1

\* attempts the download loop may make: range(3) in main.py, one elsewhere
Budget == IF variant = "main" THEN MaxAttempts ELSE 1

\* the delay after a rejected attempt: time.sleep(60) in main.py's loop only
DelayAfterReject == IF variant = "main" THEN RetryDelay ELSE 0

\* text values: kind "text" | "failed" | "sentinel", with the text's length
Text(kind, len) == [kind |-> kind, len |-> len]

\* len(f"Transcription failed: {e}") for the exception download_audio left with:
\*   no request sent   requests.get(None): "Invalid URL 'None': No scheme supplied. ..."
\*   main.py           "Failed to download audio after 3 retries (last status NNN)"
\*   main 06_11        "Failed to download audio: NNN" / "Audio file too small or not ready."
DownloadMarkerLen(rec) ==
    IF rec.n_download = 0 THEN 93
    ELSE IF variant = "main" THEN 80
    ELSE IF rec.last_status # HttpOk THEN 51
    ELSE 56

\* f"Transcription failed: {e}" / print("Error:", e) in the script
DownloadFailed(rec) ==
    IF variant = "test2"
    THEN Finish(rec, Result("printed_error", "download", NoId, NoPhone))
    ELSE [rec EXCEPT !.pc = "summarize",
                     !.transcription = Text("failed", DownloadMarkerLen(rec))]

\* one download request of download_audio, with the delay that follows a
\* rejected one; the exception of the last attempt is caught by the caller
download_audio(r) ==
    /\ run[r].pc = "download"
    /\ IF run[r].call_data.recording_url = None
       THEN \* requests.get(None) raises before any request is sent
            Set(r, DownloadFailed(run[r]))
       ELSE \E resp \in DownloadResponses :
               LET rec == [run[r] EXCEPT !.n_download = @ + 1, !.attempt = @ + 1,
                                         !.last_status = resp.status]
               IN  IF Accepts(resp.status, resp.size)
                   THEN Set(r, [rec EXCEPT !.pc = "transcribe", !.audio = resp.size])
                   ELSE LET waited == [rec EXCEPT !.slept = @ + DelayAfterReject]
                        IN  IF waited.attempt < Budget
                            THEN Set(r, waited)
                            ELSE Set(r, DownloadFailed(waited))
    /\ UNCHANGED <<variant, ACF_SECRET, env, nruns, calc, crm_leads, crm_contacts, crm_comments>>

\* ---------------------------------------------------- transcribe_with_gemini
TranscriptLens == {0, 120, TranscriptCut + 1}

TranscribeOutcomes ==
    IF Healthy THEN {Text("text", 120)}
    ELSE { Text("text", n) : n \in TranscriptLens } \cup { Text("failed", 60) }

transcribe_with_gemini(r) ==
    /\ run[r].pc = "transcribe"
    /\ \E t \in TranscribeOutcomes :
          LET rec == [run[r] EXCEPT !.n_transcribe = @ + 1]
          IN  IF t.kind = "failed" /\ variant = "test2"
              THEN Set(r, Finish(rec, Result("printed_error", "transcribe", NoId, NoPhone)))
              ELSE Set(r, [rec EXCEPT !.pc = "summarize", !.transcription = t])
    /\ UNCHANGED <<variant, ACF_SECRET, env, nruns, calc, crm_leads, crm_contacts, crm_comments>>

\* ----------------------------------------------------- summarize_with_gemini
\* if not transcript.strip(): return "No transcription available."
\* (the script's summarizer has no such test)
ShortCircuits(t) == variant # "test2" /\ t.len = 0

SummaryOutcomes ==
    IF Healthy THEN {Text("text", 40)} ELSE {Text("text", 40), Text("failed", 50)}

AfterSummary(rec) ==
    IF variant = "test2"
    THEN Finish(rec, IF rec.summary.kind = "failed"
                     THEN Result("printed_error", "summarize", NoId, NoPhone)
                     ELSE Result("printed", "summary", NoId, NoPhone))
    ELSE [rec EXCEPT !.pc = "find"]

summarize_with_gemini(r) ==
    /\ run[r].pc = "summarize"
    /\ IF ShortCircuits(run[r].transcription)
       THEN Set(r, AfterSummary([run[r] EXCEPT !.summary = Text("sentinel", 27)]))
       ELSE \E s \in SummaryOutcomes :
               Set(r, AfterSummary([run[r] EXCEPT !.n_summarize = @ + 1, !.summary = s]))
    /\ UNCHANGED <<variant, ACF_SECRET, env, nruns, calc, crm_leads, crm_contacts, crm_comments>>

\* ------------------------------------------------------------------ the CRM
\* phone.replace("+", "").strip()
IsSpace(c) == c \in {" ", "\t"}

RECURSIVE LStrip(_)
LStrip(p) == IF p # <<>> /\ IsSpace(Head(p)) THEN LStrip(Tail(p)) ELSE p

RECURSIVE RStrip(_)
RStrip(p) ==
    IF p # <<>> /\ IsSpace(p[Len(p)]) THEN RStrip(SubSeq(p, 1, Len(p) - 1)) ELSE p

Strip(p) == RStrip(LStrip(p))

Replace(p, old) == SelectSeq(p, LAMBDA c : c # old)

\* (mutant) the two calls swapped: phone.strip().replace("+", "")
Normalize_StripFirst(p) == Replace(Strip(p), "+")

Normalize(p) == Strip(Replace(p, "+"))

\* the provider matches a stored number and a queried one by their digits
Digits(p) == SelectSeq(p, LAMBDA c : c \notin {"+", " ", "-"})

CrmMatches(stored, query) == stored # NoPhone /\ Digits(stored) = Digits(query)

Ids(entities) == { e.id : e \in entities }

Matching(entities, query) == Ids({ e \in entities : CrmMatches(e.phone, query) })

\* max(ids) of a non-empty list of integer ids
Max(S) == CHOOSE m \in S : \A x \in S : x <= m

NextId == IF Ids(crm_leads \cup crm_contacts) = {} THEN 1
          ELSE Max(Ids(crm_leads \cup crm_contacts)) + 1

Entity(id, type) == [id |-> id, type |-> type]

\* the decimal digits of an id, as the characters of str(id)
RECURSIVE Decimal(_)
Decimal(n) == IF n < 10 THEN <<n>> ELSE Append(Decimal(n \div 10), n % 10)

\* a < b for two strings of digits, as Python compares str values
RECURSIVE StrLess(_, _)
StrLess(a, b) ==
    IF b = <<>> THEN FALSE
    ELSE IF a = <<>> THEN TRUE
    ELSE IF Head(a) # Head(b) THEN Head(a) < Head(b)
    ELSE StrLess(Tail(a), Tail(b))

\* the representation of the ids in a provider response: JSON numbers or strings
IdReprs == {"int", "str"}

\* max(ids): by value for numbers, by character order for strings
PyMax(ids, repr) ==
    IF repr = "int" THEN Max(ids)
    ELSE CHOOSE m \in ids : \A x \in ids : ~StrLess(Decimal(m), Decimal(x))

\* main.py: leads win over contacts, max() of the ids of the kind is taken
PickEntity(leads, contacts, repr) ==
    IF leads # {} THEN Entity(PyMax(leads, repr), "lead")
    ELSE IF contacts # {} THEN Entity(PyMax(contacts, repr), "contact")
    ELSE Entity(NoId, None)

\* main.py line 230 reads the local `comment` before line 233 assigns it:
\* UnboundLocalError, raised before post_comment_to_entity is called
PublishMain(rec) == Escapes(rec, "UnboundLocalError")

\* what follows the lookup: if not entity_id -> create, else publish
AfterFind(rec, e) ==
    LET found == [rec EXCEPT !.entity_id = e.id, !.entity_type = e.type]
    IN  IF e.id = NoId THEN [found EXCEPT !.pc = "create"]
        ELSE IF variant = "main" THEN PublishMain(found)
        ELSE [found EXCEPT !.pc = "post"]

FindOutcomes == IF LookupAnswers THEN {"result"} ELSE {"result", "error_body", "bad_json"}

\* main.py reads the result as an object, result.get("LEAD", []): a result
\* written as a JSON list ({"result": []}) raises AttributeError
FindOutcomesMain == FindOutcomes \cup (IF LookupAnswers THEN {} ELSE {"result_list"})

\* main.py: crm.duplicate.findbycomm with the phone as fetched
find_bitrix_lead_or_contact(r) ==
    /\ variant = "main"
    /\ run[r].pc = "find"
    /\ IF ~PhoneTruthy(run[r].phone)
       THEN Set(r, AfterFind(run[r], Entity(NoId, None)))
       ELSE \E o \in FindOutcomesMain, repr \in IdReprs :
               LET rec == [run[r] EXCEPT !.n_find = @ + 1, !.lookup = o]
               IN  CASE o = "bad_json" -> Set(r, Escapes(rec, "JSONDecodeError"))
                     [] o = "result_list" -> Set(r, Escapes(rec, "AttributeError"))
                     [] o = "error_body" -> Set(r, AfterFind(rec, PickEntity({}, {}, repr)))
                     [] OTHER ->
                          Set(r, AfterFind(rec, PickEntity(Matching(crm_leads, rec.phone),
                                                           Matching(crm_contacts, rec.phone),
                                                           repr)))
    /\ UNCHANGED <<variant, ACF_SECRET, env, nruns, calc, crm_leads, crm_contacts, crm_comments>>

\* main 06_11: crm.lead.list filtered by the normalized phone, first row's ID
find_bitrix_lead_id(r) ==
    /\ variant = "main_06_11"
    /\ run[r].pc = "find"
    /\ IF ~PhoneTruthy(run[r].phone)
       THEN Set(r, AfterFind(run[r], Entity(NoId, None)))
       ELSE \E o \in FindOutcomes :
               LET rec == [run[r] EXCEPT !.n_find = @ + 1, !.lookup = o]
                   rows == Matching(crm_leads, Normalize(rec.phone))
               IN  CASE o = "bad_json" -> Set(r, Escapes(rec, "JSONDecodeError"))
                     [] o = "error_body" \/ rows = {} ->
                          Set(r, AfterFind(rec, Entity(NoId, None)))
                     [] OTHER ->
                          \E first \in rows : Set(r, AfterFind(rec, Entity(first, None)))
    /\ UNCHANGED <<variant, ACF_SECRET, env, nruns, calc, crm_leads, crm_contacts, crm_comments>>

\* --------------------------------------------------------- create_bitrix_lead
CreateOutcomes == IF Healthy THEN {"created"} ELSE {"created", "no_result", "http_error"}

\* what follows the creation: main.py sets entity_type and publishes
AfterCreate(rec, id) ==
    LET made == [rec EXCEPT !.entity_id = id, !.created = id]
    IN  IF variant = "main" THEN PublishMain([made EXCEPT !.entity_type = "lead"])
        ELSE [made EXCEPT !.pc = "post"]

create_bitrix_lead(r) ==
    /\ run[r].pc = "create"
    /\ \E o \in CreateOutcomes :
          LET rec == [run[r] EXCEPT !.n_create = @ + 1]
          IN  CASE o = "http_error" ->
                     /\ Set(r, Escapes(rec, "HTTPError"))
                     /\ UNCHANGED crm_leads
                [] o = "no_result" ->
                     /\ Set(r, AfterCreate(rec, NoId))
                     /\ UNCHANGED crm_leads
                [] OTHER ->
                     /\ Set(r, AfterCreate(rec, NextId))
                     /\ crm_leads' = crm_leads \cup {Lead(NextId, rec.phone)}
    /\ UNCHANGED <<variant, ACF_SECRET, env, nruns, calc, crm_contacts, crm_comments>>

\* ------------------------------------------------------- post_comment_to_lead
\* the note: metadata, summary, the first 5000 characters of the transcription
Cut(t, n) == [t EXCEPT !.len = IF @ > n THEN n ELSE @]

Comment(rec) ==
    [call_id |-> rec.call_id, phone |-> rec.phone, summary |-> rec.summary,
     transcription |-> Cut(rec.transcription, TranscriptCut),
     recording_url |-> rec.call_data.recording_url]

\* r.raise_for_status() raises or not, whatever the entity id sent (None included)
PostOutcomes == IF Healthy THEN {"ok"} ELSE {"ok", "http_error"}

\* the timeline comment the CRM stores for fields ENTITY_ID, ENTITY_TYPE, COMMENT
TimelineComment(entity_id, entity_type, text) ==
    [entity_id |-> entity_id, entity_type |-> entity_type, text |-> text]

\* main 06_11 only: main.py never reaches its post_comment_to_entity
post_comment_to_lead(r) ==
    /\ variant = "main_06_11"
    /\ run[r].pc = "post"
    /\ \E o \in PostOutcomes :
          LET rec == [run[r] EXCEPT !.n_post = @ + 1]
          IN  IF o = "http_error"
              THEN /\ Set(r, Escapes(rec, "HTTPError"))
                   /\ UNCHANGED crm_comments
              ELSE /\ Set(r, Finish(rec, Result("success", None, rec.entity_id, rec.phone)))
                   /\ crm_comments' = Append(crm_comments,
                          TimelineComment(rec.entity_id, "lead", Comment(rec)))
    /\ UNCHANGED <<variant, ACF_SECRET, env, nruns, calc, crm_leads, crm_contacts>>

Next ==
    \E r \in Runs :
        \/ acefone_webhook(r)
        \/ test2_main(r)
        \/ acefone_login(r)
        \/ fetch_call_details(r)
        \/ download_audio(r)
        \/ transcribe_with_gemini(r)
        \/ summarize_with_gemini(r)
        \/ find_bitrix_lead_or_contact(r)
        \/ find_bitrix_lead_id(r)
        \/ create_bitrix_lead(r)
        \/ post_comment_to_lead(r)


Spec == Init /\ [][Next]_vars

\* redelivery and concurrency: MaxRuns deliveries against healthy providers
InitHealthy == InitWith("healthy", MaxRuns)

SpecHealthy == InitHealthy /\ [][Next]_vars

\* one worker process: the handler is async def and its calls block the event
\* loop, so a delivery is handled only when the one before it has ended;
\* every remote call succeeds, but the CRM lookup may answer with an error
OneAtATime == Cardinality({ r \in Runs : run[r].pc \notin {"idle", "done"} }) <= 1

InitSequential == InitWith("lookup_fails", MaxRuns)

NextSequential ==
    \E r \in Runs :
        \/ acefone_webhook(r) /\ OneAtATime'
        \/ test2_main(r) /\ OneAtATime'
        \/ acefone_login(r)
        \/ fetch_call_details(r)
        \/ download_audio(r)
        \/ transcribe_with_gemini(r)
        \/ summarize_with_gemini(r)
        \/ find_bitrix_lead_or_contact(r)
        \/ find_bitrix_lead_id(r)
        \/ create_bitrix_lead(r)
        \/ post_comment_to_lead(r)

SpecSequential == InitSequential /\ [][NextSequential]_vars

\* ------------------------------------------- helper functions on their own
\* the pipeline at rest while a helper is applied to inputs of its domain
InitPure ==
    /\ variant = "main_06_11"
    /\ ACF_SECRET = None
    /\ env = "healthy"
    /\ nruns = 0
    /\ run = [r \in Runs |-> IdleRun]
    /\ crm_leads = {}
    /\ crm_contacts = {}
    /\ crm_comments = <<>>
    /\ calc = NoCalc

Resting == UNCHANGED <<variant, ACF_SECRET, env, nruns, run, crm_leads, crm_contacts, crm_comments>>

PhoneChars == {"+", " ", "\t", "9"}
PhoneStrings == SeqsUpTo(PhoneChars, MaxPhoneLen)

\* phone = phone.replace("+", "").strip(), on any phone string
normalize_phone ==
    /\ calc.fn = "none"
    /\ \E p \in PhoneStrings :
          calc' = [fn |-> "normalize", applied |-> 1, input |-> p,
                   once |-> Normalize(p), value |-> Normalize(p)]
    /\ Resting

\* the normalization applied to its own result
normalize_again ==
    /\ calc.fn = "normalize"
    /\ calc.applied = 1
    /\ calc' = [calc EXCEPT !.applied = 2, !.value = Normalize(calc.value)]
    /\ Resting

\* find_bitrix_lead_or_contact's choice, on any search result
EntityIds == (MaxEntityId - 3)..MaxEntityId

pick_entity ==
    /\ calc.fn = "none"
    /\ \E leads \in SUBSET EntityIds, contacts \in SUBSET EntityIds, repr \in IdReprs :
          calc' = [fn |-> "pick", leads |-> leads, contacts |-> contacts, repr |-> repr,
                   out |-> PickEntity(leads, contacts, repr)]
    /\ Resting

\* len(comment): the f-string with its fields, the transcription cut to
\* transcription[:5000], every other field copied whole
CommentLen(meta, summary, transcription) ==
    TemplateLen + meta + summary
    + (IF transcription > TranscriptCut THEN TranscriptCut ELSE transcription)

\* lengths of phone, agent, duration, time and link together; of the summary
MetaLens == {0, 30}
SummaryLens == {0, 40, NoteLimit + 1}

\* the comment composed from fields of any length
compose_comment ==
    /\ calc.fn = "none"
    /\ \E m \in MetaLens, s \in SummaryLens, t \in TranscriptLens :
          calc' = [fn |-> "comment", meta |-> m, summary |-> s, transcription |-> t,
                   out |-> CommentLen(m, s, t)]
    /\ Resting

\* main.py's publisher called on its own (the handler of main.py never
\* reaches its call): one POST for any entity id and type, raise_for_status
EntityTypes == {"lead", "contact"}
NoteTexts ==
    { Comment([IdleRun EXCEPT !.summary = Text("text", 40), !.transcription = Text("text", t)]) :
      t \in TranscriptLens }

post_comment_to_entity ==
    /\ calc.fn = "none"
    /\ \E entity_id \in EntityIds \cup {NoId}, entity_type \in EntityTypes,
          text \in NoteTexts, o \in {"ok", "http_error"} :
          /\ calc' = [fn |-> "post", entity_id |-> entity_id,
                      entity_type |-> entity_type, out |-> o]
          /\ crm_comments' = IF o = "ok"
                             THEN Append(crm_comments,
                                         TimelineComment(entity_id, entity_type, text))
                             ELSE crm_comments
    /\ UNCHANGED <<variant, ACF_SECRET, env, nruns, run, crm_leads, crm_contacts>>

NextPure ==
    \/ normalize_phone
    \/ normalize_again
    \/ pick_entity
    \/ compose_comment
    \/ post_comment_to_entity

SpecPure == InitPure /\ [][NextPure]_vars

\* =================================================================== claims
Webhook == variant \in {"main", "main_06_11"}

Delivered(rec) == rec.pc # "idle"

Done(rec) == rec.pc = "done"

CommentsOf(call_id) ==
    { i \in 1..Len(crm_comments) : crm_comments[i].text.call_id = call_id }

CommentsOn(id) ==
    { i \in 1..Len(crm_comments) : crm_comments[i].entity_id = id }

\* the run did not end by a failed response of a remote call
NoRemoteFailure(rec) ==
    rec.result.detail \notin {"HTTPError", "JSONDecodeError", "AttributeError"}

JsonOutcomes == {"success", "message", "error", "http_error"}

\* ----------------------------------------------------------------------- C1
\* C1 as stated (for authorized requests): every event whose status is not
\* "completed", an absent status included, makes no remote call and is
\* answered with the Ignored message.
C1_Original ==
    \A r \in Runs :
        (Webhook /\ Delivered(run[r]) /\ ~Unauthorized(ACF_SECRET, run[r].x_secret)
            /\ run[r].status # "completed")
        => /\ RemoteCalls(run[r]) = 0
           /\ Done(run[r]) /\ run[r].result.kind = "message"

\* C1 amended: every authorized event whose status is a non-empty string that
\* differs from "completed" after lower-casing makes no remote call and is
\* answered with the Ignored message (an absent or empty status is processed).
C1_Ignored ==
    \A r \in Runs :
        (Webhook /\ Delivered(run[r]) /\ ~Unauthorized(ACF_SECRET, run[r].x_secret)
            /\ run[r].status \notin {None, ""}
            /\ Lower(run[r].status) # "completed")
        => /\ RemoteCalls(run[r]) = 0
           /\ Done(run[r])
           /\ run[r].result = Result("message", "Call not completed. Ignoring.", NoId, NoPhone)

C1_Witness ==
    \E r \in Runs :
        /\ Webhook /\ Done(run[r]) /\ run[r].status = "missed"
        /\ run[r].result.kind = "message" /\ RemoteCalls(run[r]) = 0

\* ----------------------------------------------------------------------- C2
\* C2: with a (non-empty) shared secret configured, a request whose secret
\* header is absent or different ends with the 403 authorization error and
\* has made no remote call, whatever its status and call_id.
C2_Unauthorized ==
    \A r \in Runs :
        (Webhook /\ Delivered(run[r]) /\ ACF_SECRET \notin {None, ""}
            /\ run[r].x_secret # ACF_SECRET)
        => /\ Done(run[r])
           /\ run[r].result = Result("http_error", "403 Unauthorized", NoId, NoPhone)
           /\ RemoteCalls(run[r]) = 0
           /\ crm_comments = <<>>

C2_Witness ==
    \E r \in Runs :
        /\ Webhook /\ ACF_SECRET = "s3cret" /\ run[r].x_secret = None
        /\ run[r].status = "completed" /\ Done(run[r])
        /\ run[r].result.kind = "http_error"

\* ----------------------------------------------------------------------- C3
\* C3: at most one timeline comment is ever posted for one call_id, over any
\* sequence of deliveries.
C3_AtMostOnce == \A c \in CallIds : Cardinality(CommentsOf(c)) <= 1

\* ----------------------------------------------------------------------- C4
\* C4: every run of the handler that has ended returned a JSON outcome
\* (success, Ignored, structured error); no exception left the handler.
C4_AlwaysJson ==
    \A r \in Runs :
        (Webhook /\ Done(run[r])) => run[r].result.kind \in JsonOutcomes

\* ----------------------------------------------------------------------- C5
\* the recording was accepted on the first download attempt
ReadyAtFirst(rec) == rec.n_download = 1 /\ rec.audio # NoAudio

\* transcription and summary succeeded
ContentOk(rec) ==
    /\ rec.transcription.kind = "text" /\ rec.transcription.len > 0
    /\ rec.summary.kind = "text"

\* the lookup found an existing lead: nothing was created
FoundLead(rec) ==
    /\ rec.n_find = 1 /\ rec.n_create = 0
    /\ rec.entity_id \in Ids(crm_leads)
    /\ rec.entity_type # "contact"

\* the run ended in success for the given entity, one note posted to it
SucceededOn(rec, id, kind) ==
    /\ rec.result = Result("success", None, id, rec.phone)
    /\ rec.n_post = 1
    /\ Cardinality(CommentsOf(rec.call_id)) = 1
    /\ \A i \in CommentsOf(rec.call_id) :
          crm_comments[i].entity_id = id /\ crm_comments[i].entity_type = kind

\* C5 (scenario A): a completed event with the record found, the recording
\* ready at the first attempt, transcription and summary succeeding and an
\* existing lead found ends in success with that lead's id and the phone, one
\* note posted to that lead and no lead created.
C5_ScenarioA ==
    \A r \in Runs :
        (Webhook /\ Done(run[r]) /\ run[r].status = "completed"
            /\ ReadyAtFirst(run[r]) /\ ContentOk(run[r])
            /\ FoundLead(run[r]) /\ NoRemoteFailure(run[r]))
        => SucceededOn(run[r], run[r].entity_id, "lead")

\* ----------------------------------------------------------------------- C6
\* the recording was rejected twice and accepted at the third attempt
ReadyAtThird(rec) == rec.attempt = MaxAttempts /\ rec.audio # NoAudio

\* C6 (scenario B): when the download is rejected twice and accepted at the
\* third attempt, download_audio has made exactly three requests and slept
\* exactly two retry delays, and the run that ends succeeds with its note.
C6_ScenarioB ==
    \A r \in Runs :
        (variant = "main" /\ ReadyAtThird(run[r]))
        => /\ run[r].n_download = MaxAttempts
           /\ run[r].slept = (MaxAttempts - 1) * RetryDelay
           /\ (Done(run[r]) /\ ContentOk(run[r]) /\ NoRemoteFailure(run[r])
                 /\ FoundLead(run[r]))
              => SucceededOn(run[r], run[r].entity_id, "lead")

\* ----------------------------------------------------------------------- C7
\* every download attempt of the budget was rejected
NeverReady(rec) ==
    /\ rec.n_download = Budget /\ rec.attempt = Budget /\ rec.audio = NoAudio
    /\ rec.pc # "download"

\* C7 (scenario C): when every download attempt is rejected, the run that
\* ends (its other remote calls answering) returns success, having posted
\* one note that carries the "Transcription failed" placeholder.
C7_ScenarioC ==
    \A r \in Runs :
        (Webhook /\ Done(run[r]) /\ NeverReady(run[r]) /\ NoRemoteFailure(run[r]))
        => /\ run[r].result.kind = "success"
           /\ Cardinality(CommentsOf(run[r].call_id)) = 1
           /\ \A i \in CommentsOf(run[r].call_id) :
                 crm_comments[i].text.transcription.kind = "failed"

\* ----------------------------------------------------------------------- C8
\* C8 (scenario D): a run whose lookup found no lead and no contact creates
\* exactly one lead, and no run ends having created a lead without a note
\* posted to that lead with kind = lead.
C8_ScenarioD ==
    \A r \in Runs :
        (Webhook /\ Done(run[r]) /\ run[r].created # NoId)
        => /\ run[r].n_create = 1
           /\ \E i \in CommentsOn(run[r].created) :
                 crm_comments[i].entity_type = "lead"

\* ----------------------------------------------------------------------- C9
MaxWait == MaxAttempts * RetryDelay

\* download_audio has ended by raising: no audio, its caller took the failure
Raised(rec) ==
    /\ rec.audio = NoAudio /\ rec.n_transcribe = 0
    /\ \/ rec.transcription.kind = "failed"
       \/ rec.result.detail = "download"

\* C9: download_audio makes at most max_attempts (3) requests, for every
\* sequence of responses: with the budget used up the loop is left, either
\* with audio or by raising, and the delays it sleeps total at most
\* max_attempts * 60 seconds.
C9_BoundedRetry ==
    \A r \in Runs :
        /\ run[r].n_download <= MaxAttempts
        /\ run[r].slept <= MaxWait
        /\ run[r].pc = "download" => run[r].n_download < MaxAttempts
        /\ (run[r].n_download > 0 /\ run[r].pc # "download")
              => (run[r].audio # NoAudio) # Raised(run[r])

C9_Witness ==
    \E r \in Runs :
        /\ variant = "main" /\ run[r].n_download = MaxAttempts
        /\ Raised(run[r]) /\ run[r].slept = MaxWait

\* ---------------------------------------------------------------------- C10
\* C10: the audio download_audio returns is never smaller than the 5000-byte
\* threshold, whatever the response's HTTP status, in every variant.
C10_MinSize ==
    \A r \in Runs :
        run[r].audio # NoAudio
        => run[r].audio >= MinAudioSize /\ run[r].last_status = HttpOk

C10_Witness ==
    /\ variant = "main"
    /\ \E r \in Runs :
          run[r].attempt = 2 /\ run[r].audio = MinAudioSize + 1

\* ---------------------------------------------------------------------- C11
\* C11: the resolver's phone normalization (remove every '+', strip the
\* surrounding whitespace) is idempotent: normalizing a normalized phone
\* leaves it as it is, for every input string.
C11_Idempotent ==
    (calc.fn = "normalize" /\ calc.applied = 2) => calc.value = calc.once

C11_Witness ==
    /\ calc.fn = "normalize" /\ calc.applied = 2
    /\ calc.input = <<" ", "+", "9">> /\ calc.once = <<"9">> /\ calc.value = <<"9">>

\* ---------------------------------------------------------------------- C12
\* the phone a run resolved, as the provider compares numbers
SamePhone(a, b) == PhoneTruthy(a) /\ PhoneTruthy(b) /\ Digits(a) = Digits(b)

\* no entity matched the phone before the runs: every match was created by a run
NoEntityBefore(phone) ==
    \A e \in crm_leads \cup crm_contacts :
        CrmMatches(e.phone, phone) => \E r \in Runs : run[r].created = e.id

\* C12: find-or-create creates no duplicate: when no entity matches a phone
\* and a resolution has created a lead for it, any later resolution for the
\* same phone (a later delivery, handled after the first has ended) finds
\* and returns that same lead id without calling create again, so at most
\* one lead is created for the phone.
C12_NoDuplicate ==
    \A r, q \in Runs :
        ( /\ r < q
          /\ SamePhone(run[r].phone, run[q].phone)
          /\ NoEntityBefore(run[r].phone)
          /\ run[r].created # NoId
          /\ run[q].n_find > 0 )
        => /\ run[q].n_create = 0
           /\ run[q].created = NoId
           /\ run[q].lookup = "result" => run[q].entity_id = run[r].created

\* ---------------------------------------------------------------------- C13
\* the run ended on a fatal path before the resolver: authorization
\* mismatch, login failure, call-record fetch failure, call record not found
FatalBeforeResolving(rec) ==
    /\ Done(rec)
    /\ \/ rec.result.kind \in {"http_error", "error"}
       \/ rec.result.kind = "exception" /\ rec.call_data = NoRecord

\* C13: a run that ends on a fatal path before Resolving has left the CRM
\* as it was: no lookup, no lead creation, no comment post.
C13_CrmUntouched ==
    \A r \in Runs :
        (Webhook /\ FatalBeforeResolving(run[r]))
        => /\ run[r].n_find = 0 /\ run[r].n_create = 0 /\ run[r].n_post = 0
           /\ run[r].created = NoId
           /\ crm_comments = <<>>
           /\ [leads |-> crm_leads, contacts |-> crm_contacts] \in InitialCrms

C13_Witness ==
    \E r \in Runs :
        /\ Webhook /\ Done(run[r])
        /\ run[r].result.detail = "Call not found in Acefone records"
        /\ run[r].n_login = 1 /\ run[r].n_fetch = 1 /\ crm_leads # {}

\* ---------------------------------------------------------------------- C14
\* the summarizer has been applied to the run's transcript
Summarized(rec) == rec.summary.kind # "unset"

\* the transcript is empty or is a transcription-failure marker
NothingToSummarize(t) == t.len = 0 \/ t.kind = "failed"

\* C14: for an empty transcript or a failure marker the summarizer makes no
\* remote generation call and returns the "No transcription available."
\* sentinel, so a run whose download or transcription failed never calls it.
C14_NoCallOnFailure ==
    \A r \in Runs :
        (Webhook /\ Summarized(run[r]) /\ NothingToSummarize(run[r].transcription))
        => run[r].n_summarize = 0 /\ run[r].summary.kind = "sentinel"

\* ---------------------------------------------------------------------- C15
\* C15: for every search result, a returned lead makes the kind lead whatever
\* the contacts are, otherwise a returned contact makes it contact, and the
\* id taken is the numerically largest of the kind, whether the provider
\* writes the ids as numbers or as numeric strings.
C15_TieBreak ==
    calc.fn = "pick"
    => /\ calc.leads # {} => calc.out = Entity(Max(calc.leads), "lead")
       /\ (calc.leads = {} /\ calc.contacts # {})
             => calc.out = Entity(Max(calc.contacts), "contact")

\* ---------------------------------------------------------------------- C16
\* the CRM lookup answered with an error instead of a search result
LookupFailed(rec) == rec.lookup \in {"error_body", "bad_json"}

\* the create call was made and gave no lead id
CreateFailed(rec) == rec.n_create > 0 /\ rec.pc # "create" /\ rec.created = NoId

\* C16: a failed CRM lookup is fatal to the resolution: the run creates no
\* lead and posts no note after it; a failed create call ends the run with
\* no note posted.
C16_ResolutionFatal ==
    \A r \in Runs :
        /\ (Webhook /\ LookupFailed(run[r]))
              => run[r].n_create = 0 /\ run[r].n_post = 0
        /\ (Webhook /\ CreateFailed(run[r]))
              => CommentsOf(run[r].call_id) = {}

\* ---------------------------------------------------------------------- C17
\* the login call was made and gave no session token
LoginFailed(rec) == rec.n_login > 0 /\ rec.pc # "login" /\ rec.token = None

\* C17: a login that yields no session token (error response, or response
\* without an access token) is fatal and is not retried: exactly one login
\* request, no fetch and no later remote call, and the run is Failed with an
\* error result.
C17_LoginFatal ==
    \A r \in Runs :
        LoginFailed(run[r])
            => /\ run[r].n_login = 1
               /\ run[r].n_fetch = 0
               /\ run[r].n_download = 0
               /\ run[r].n_find = 0
               /\ Done(run[r])
               /\ run[r].result.kind = "error"

\* ---------------------------------------------------------------------- C18
\* the run holds a failure marker in place of the transcript or the summary
HasMarker(rec) == rec.transcription.kind = "failed" \/ rec.summary.kind = "failed"

\* the note carries the markers of the run, as the run holds them
CarriesMarker(rec, note) ==
    /\ note.text.summary = rec.summary
    /\ note.text.transcription = Cut(rec.transcription, TranscriptCut)

\* C18: a failure of the transcription or the summary call never moves the
\* run to Failed: the result is replaced by its marker and the run goes on
\* to Resolving and Publishing, where the posted note carries the marker.
C18_MarkerPublished ==
    \A r \in Runs :
        (Webhook /\ HasMarker(run[r]))
            => /\ Done(run[r]) => run[r].n_find + run[r].n_create > 0
               /\ (Done(run[r]) /\ NoRemoteFailure(run[r]))
                     => /\ run[r].result.kind = "success"
                        /\ \E i \in CommentsOf(run[r].call_id) :
                              CarriesMarker(run[r], crm_comments[i])

\* ---------------------------------------------------------------------- C19
\* the run reached the find-or-create resolution
Resolved(rec) == rec.n_find + rec.n_create > 0

\* the leads the CRM held before any run created one
LeadsBefore == { l \in crm_leads : \A r \in Runs : run[r].created # l.id }

NextIdOf(leads) ==
    IF Ids(leads \cup crm_contacts) = {} THEN 1
    ELSE Max(Ids(leads \cup crm_contacts)) + 1

\* the entity ids a lookup made against `leads` may return for the run
Candidates(rec, leads) ==
    IF ~PhoneTruthy(rec.phone) THEN {}
    ELSE IF variant = "main"
    THEN { PickEntity(Matching(leads, rec.phone),
                      Matching(crm_contacts, rec.phone), repr).id : repr \in IdReprs }
         \ {NoId}
    ELSE Matching(leads, Normalize(rec.phone))

\* the runs order[i], order[i+1], ... executed one after the other from
\* `leads` give each run the outcome it has and end with the leads there are
RECURSIVE SerialFrom(_, _, _)
SerialFrom(order, i, leads) ==
    IF i > Len(order) THEN leads = crm_leads
    ELSE LET rec == run[order[i]]
         IN  IF ~Resolved(rec) THEN SerialFrom(order, i + 1, leads)
             ELSE IF Candidates(rec, leads) = {}
             THEN /\ rec.created = NextIdOf(leads)
                  /\ SerialFrom(order, i + 1,
                                leads \cup {Lead(NextIdOf(leads), rec.phone)})
             ELSE /\ rec.created = NoId
                  /\ rec.entity_id \in Candidates(rec, leads)
                  /\ SerialFrom(order, i + 1, leads)

Orders ==
    { o \in [1..nruns -> 1..nruns] : \A i, j \in 1..nruns : i # j => o[i] # o[j] }

\* C19: concurrent runs are independent: for two runs for different call
\* events executing concurrently (two calls from one phone with no CRM
\* entity included), every interleaving ends with the CRM state and the
\* results of the two runs executed one after the other in some order.
C19_Serializable ==
    ( /\ Webhook
      /\ \A r \in 1..nruns : Done(run[r])
      /\ \A r, q \in 1..nruns : r # q => run[r].call_id # run[q].call_id )
    => \E order \in Orders : SerialFrom(order, 1, LeadsBefore)

\* ---------------------------------------------------------------------- C20
\* C20: the text of every note passed to the publisher has length at most a
\* fixed maximum: the transcript contributes at most its first 5000
\* characters and no other component makes the length unbounded.
C20_NoteBounded ==
    calc.fn = "comment"
    => /\ calc.out - (TemplateLen + calc.meta + calc.summary) <= TranscriptCut
       /\ calc.out <= NoteLimit

\* ---------------------------------------------------------------------- C21
\* the call of download_audio has returned or raised after k >= 1 attempts
Downloaded(rec) == rec.n_download > 0 /\ rec.pc # "download"

\* the delays the call has slept
Delays(rec) == rec.slept \div RetryDelay

\* C21: download_audio delays only between consecutive attempts: a call that
\* makes k attempts (1 <= k <= 3) incurs exactly k-1 delays, so no delay
\* follows the final attempt, whether it succeeded or exhausted the budget.
C21_DelaysBetween ==
    \A r \in Runs :
        Downloaded(run[r])
        => /\ run[r].n_download \in 1..MaxAttempts
           /\ run[r].slept = Delays(run[r]) * RetryDelay
           /\ Delays(run[r]) = run[r].n_download - 1
====
